---- MODULE Spec2Model ----
(***************************************************************************)
(* Model of src/video.py: one Streamlit session of the video analysis      *)
(* chatbot.  Every user interaction (file selection, chat prompt, Clear    *)
(* button) starts one run of the script, which executes the sidebar upload *)
(* handler, then the chat input handler, then the Clear handler.           *)
(* upload_video_to_gemini blocks inside the sidebar handler; its steps are *)
(* separate actions (position pc) because the remote service answers each  *)
(* call on its own.                                                        *)
(*                                                                         *)
(* polling_interval and max_polling_time are locals of                     *)
(* upload_video_to_gemini (lines 56-57).  They are carried as state and    *)
(* drawn in Init from Configs, which holds the program's own values and    *)
(* the parameter values the specification's scenarios name.                *)
(***************************************************************************)
EXTENDS Integers, Sequences, FiniteSets, TLC

\* ---------------------------------------------------------------- bounds
MaxKey == 3          \* bound on st.session_state.upload_key
MaxMessages == 2     \* bound on len(st.session_state.messages)
MaxLag == 1          \* seconds the clock may show at the first timeout test

\* ------------------------------------------------------------- constants
PollingInterval == 5
MaxPollingTime == 300

\* <<polling_interval, max_polling_time>>
Configs ==
    { <<PollingInterval, MaxPollingTime>>,
      <<PollingInterval, 0>>,
      <<1, 10>>,
      <<1, 0>> }

\* the selectable files: two contents under one name, and another name
Files == {"a.mp4/1", "a.mp4/2", "b.mp4"}

FileName(f) == IF f = "b.mp4" THEN "b.mp4" ELSE "a.mp4"

NoFile == "None"

\* File.State of the remote service
States == {"STATE_UNSPECIFIED", "PROCESSING", "ACTIVE", "FAILED"}

\* Python's None where a File handle is expected, and an absent cache entry
None == [name |-> 0, state |-> "None"]
Miss == [name |-> 0, state |-> "Miss"]

File(id, s) == [name |-> id, state |-> s]

\* the literal replies of get_gemini_response
UploadFirstMsg == "Please upload a video first."
NoCandidatesMsg == "The model could not generate a response. This might be due to safety filters or limitations. Please try a different question or video."
ErrorMsg == "Sorry, I encountered an error trying to analyze the video with your question."
\* response.text of a reply that has candidates
Texts == {"generated text"}

\* what model.generate_content can do
GenerateOutcomes == {"text", "no_candidates", "blocked_text", "raises"}

\* no model.generate_content call, no genai.get_file call
NoGen == [name |-> 0, state |-> "None", deleted |-> FALSE, outcome |-> "none"]
NoPoll == [name |-> 0, report |-> "none", deleted |-> FALSE, failed |-> FALSE,
           by |-> "none"]

VARIABLES
    messages,                 \* st.session_state.messages
    uploaded_video_file_obj,  \* st.session_state.uploaded_video_file_obj
    uploaded_file_name,       \* st.session_state.uploaded_file_name
    upload_key,               \* st.session_state.upload_key
    uploaded_file,            \* value of the st.file_uploader widget
    cache,                    \* st.cache_resource entries of upload_video_to_gemini
    deleted,                  \* remote files removed by genai.delete_file
    uploads,                  \* number of genai.upload_file calls that succeeded
    polling_interval,
    max_polling_time,
    pc,                       \* position inside upload_video_to_gemini
    video_file,               \* local of upload_video_to_gemini
    elapsed,                  \* time.time() - start_time, in whole seconds
    tmp_files,                \* temporary files present on disk
    checkedAt,                \* elapsed at the last timeout test (-1: none)
    polls,                    \* genai.get_file calls of this upload
    processing,               \* PROCESSING reports the service gave this upload
    backend,                  \* "free", or "stuck": reports PROCESSING forever
    failedSeen,               \* files an upload saw in FAILED
    notice,                   \* what the last handler reported
    lastRun,                  \* the handler the last run ended in ("clear2":
                              \* Clear, and the run before it was Clear too)
    genCall,                  \* the last model.generate_content call
    pollCall,                 \* the last genai.get_file call
    deletes                   \* number of genai.delete_file requests

vars == << messages, uploaded_video_file_obj, uploaded_file_name, upload_key,
           uploaded_file, cache, deleted, uploads, polling_interval,
           max_polling_time, pc, video_file, elapsed, tmp_files, checkedAt,
           polls, processing, backend, failedSeen, notice, lastRun, genCall,
           pollCall, deletes >>

session == << messages, uploaded_video_file_obj, uploaded_file_name,
              upload_key, uploaded_file >>
remote == << deleted, uploads, deletes >>
config == << polling_interval, max_polling_time, backend >>
locals == << video_file, elapsed, checkedAt, polls, processing >>
calls == << genCall, pollCall >>

Init ==
    /\ messages = << >>
    /\ uploaded_video_file_obj = None
    /\ uploaded_file_name = "None"
    /\ upload_key = 0
    /\ uploaded_file = NoFile
    /\ cache = [f \in Files |-> Miss]
    /\ deleted = {}
    /\ uploads = 0
    /\ \E c \in Configs : polling_interval = c[1] /\ max_polling_time = c[2]
    /\ pc = "idle"
    /\ video_file = None
    /\ elapsed = 0
    /\ tmp_files = 0
    /\ checkedAt = -1
    /\ polls = 0
    /\ processing = 0
    /\ backend \in {"free", "stuck"}
    /\ failedSeen = {}
    /\ notice = "none"
    /\ lastRun = "init"
    /\ genCall = NoGen
    /\ pollCall = NoPoll
    /\ deletes = 0

\* ------------------------------------------------ upload_video_to_gemini

\* the function returns: st.cache_resource stores the value, the sidebar
\* handler stores it in the session, bumps upload_key and reruns the script;
\* the rerun sees a new, empty uploader and no trigger
Return(result, why) ==
    /\ cache' = [cache EXCEPT ![uploaded_file] = result]
    /\ uploaded_video_file_obj' = result
    /\ upload_key' = upload_key + 1
    /\ uploaded_file' = NoFile
    /\ pc' = "idle"
    /\ notice' = why
    /\ lastRun' = "upload"
    /\ UNCHANGED << messages, uploaded_file_name >>

\* tmp_file.write(uploaded_file.getvalue()); tmp_file_path = tmp_file.name
WriteTmp ==
    /\ pc = "write"
    /\ \/ /\ pc' = "upload"
          /\ UNCHANGED << session, cache, notice, lastRun, tmp_files >>
       \/ \* write raises: tmp_file_path is not bound, nothing is unlinked
          /\ Return(None, "error")
          /\ UNCHANGED tmp_files
    /\ UNCHANGED << remote, config, locals, failedSeen, calls >>

\* what genai.upload_file can report for a new file: a state, or an error
UploadFileFor ==
    IF backend = "stuck" THEN {"PROCESSING"} ELSE States \cup {"raises"}

\* what genai.get_file can report for file id: a state, or an error, and
\* only an error once the file is deleted
GetFileFor(id) ==
    IF id \in deleted THEN {"raises"}
    ELSE IF backend = "stuck" THEN {"PROCESSING"} ELSE States \cup {"raises"}

\* the PROCESSING reports of this upload, after report r
Reported(r) == IF r = "PROCESSING" THEN processing + 1 ELSE processing

\* a status poll whose result is dropped
RefreshedStale(v, r) == v

\* line 66: video_file after genai.get_file reported r
Refreshed(v, r) == File(v.name, r)

\* the files an upload saw in FAILED, after report r for file id
SeenFailed(id, r) == IF r = "FAILED" THEN failedSeen \cup {id} ELSE failedSeen

\* video_file = genai.upload_file(path=tmp_file_path); start_time = time.time()
UploadFile ==
    /\ pc = "upload"
    /\ \E r \in UploadFileFor, lag \in 0..MaxLag :
        IF r = "raises"
        THEN \* the except branch unlinks the temporary file
             /\ Return(None, "error")
             /\ tmp_files' = tmp_files - 1
             /\ UNCHANGED << uploads, locals, failedSeen >>
        ELSE /\ uploads' = uploads + 1
             /\ video_file' = File(uploads + 1, r)
             /\ processing' = Reported(r)
             /\ elapsed' = lag
             /\ failedSeen' = SeenFailed(uploads + 1, r)
             /\ pc' = "loop"
             /\ UNCHANGED << session, cache, notice, lastRun, tmp_files,
                             checkedAt, polls >>
    /\ UNCHANGED << deleted, deletes, config, calls >>

\* a timeout test that gives up one second late
TimedOutLate(e, maxWait) == e > maxWait + 1

\* the timeout test of the loop, line 61
TimedOut(e, maxWait) == e > maxWait

\* a return that lacks the test for FAILED
AfterLoopUnchecked(v) == v

\* lines 69-76: what the function returns once the loop is left with v
AfterLoop(v) == IF v.state = "FAILED" THEN None ELSE v

\* one evaluation of the while condition and what follows it when it is false
LoopTest ==
    /\ pc = "loop"
    /\ IF video_file.state = "PROCESSING"
       THEN /\ checkedAt' = elapsed
            /\ IF TimedOut(elapsed, max_polling_time)
               THEN /\ Return(None, "timed_out")
                    /\ tmp_files' = tmp_files - 1
               ELSE /\ pc' = "sleep"
                    /\ UNCHANGED << session, cache, notice, lastRun, tmp_files >>
       ELSE /\ UNCHANGED checkedAt
            /\ tmp_files' = tmp_files - 1
            /\ Return(AfterLoop(video_file),
                      IF video_file.state = "FAILED" THEN "failed" ELSE "ready")
    /\ UNCHANGED << remote, config, video_file, elapsed, polls, processing,
                    failedSeen,
                    calls >>

\* a sleep of one second whatever the interval
SleptOneSecond(e, interval) == e + 1

\* the clock after time.sleep(interval)
Slept(e, interval) == e + interval

\* time.sleep(polling_interval); video_file = genai.get_file(video_file.name)
SleepAndPoll ==
    /\ pc = "sleep"
    /\ elapsed' = Slept(elapsed, polling_interval)
    /\ polls' = polls + 1
    /\ \E r \in GetFileFor(video_file.name) :
        /\ processing' = Reported(r)
        /\ pollCall' = [name |-> video_file.name, report |-> r,
                        deleted |-> video_file.name \in deleted,
                        failed |-> video_file.name \in failedSeen,
                        by |-> "upload"]
        /\ IF r = "raises"
           THEN \* the except branch unlinks the temporary file
                /\ Return(None, "error")
                /\ tmp_files' = tmp_files - 1
                /\ UNCHANGED << video_file, failedSeen >>
           ELSE /\ video_file' = Refreshed(video_file, r)
                /\ failedSeen' = SeenFailed(video_file.name, r)
                /\ pc' = "loop"
                /\ UNCHANGED << session, cache, notice, lastRun, tmp_files >>
    /\ UNCHANGED << remote, config, checkedAt, genCall >>

\* --------------------------------------------------- the sidebar handler

\* a sidebar handler without the comparison of names
NeedsUploadAlways(uf) == uf # NoFile

\* line 168, for the file uf the uploader holds in this run
NeedsUpload(uf) == uf # NoFile /\ uploaded_file_name # FileName(uf)

\* lines 169-173: the chat is reset, the name recorded, and
\* upload_video_to_gemini is called; a cached value is returned at once
StartUpload(uf) ==
    /\ upload_key < MaxKey
    /\ IF cache[uf] # Miss
       THEN /\ cache' = cache
            /\ uploaded_video_file_obj' = cache[uf]
            /\ upload_key' = upload_key + 1
            /\ uploaded_file' = NoFile
            /\ pc' = "idle"
            /\ notice' = "cached"
            /\ lastRun' = "upload"
            /\ video_file' = None
            /\ elapsed' = 0
            /\ checkedAt' = -1
            /\ polls' = 0
            /\ processing' = 0
            /\ UNCHANGED tmp_files
       ELSE /\ uploaded_file' = uf
            /\ pc' = "write"
            /\ tmp_files' = tmp_files + 1
            /\ video_file' = None
            /\ elapsed' = 0
            /\ checkedAt' = -1
            /\ polls' = 0
            /\ processing' = 0
            /\ notice' = "uploading"
            /\ lastRun' = "upload"
            /\ UNCHANGED << cache, uploaded_video_file_obj, upload_key >>
    /\ messages' = << >>
    /\ uploaded_file_name' = FileName(uf)
    /\ genCall' = NoGen
    /\ pollCall' = NoPoll
    /\ UNCHANGED << remote, config, failedSeen >>

\* lines 179-186 and 189-192: the name the session holds after the sidebar
\* handler, in a run that does not upload
NameAfterSidebar(uf) ==
    IF uf # NoFile /\ uploaded_video_file_obj = None
    THEN "None" ELSE uploaded_file_name

\* a run that does not call upload_video_to_gemini: the locals of the last
\* call are gone
NoUpload ==
    /\ video_file' = None
    /\ elapsed' = 0
    /\ checkedAt' = -1
    /\ polls' = 0
    /\ processing' = 0
    /\ UNCHANGED << cache, uploads, config, pc, tmp_files, failedSeen >>

\* the user picks file f in the uploader
SelectFile(f) ==
    /\ pc = "idle"
    /\ IF NeedsUpload(f)
       THEN StartUpload(f)
       ELSE /\ NoUpload
            /\ uploaded_file' = f
            /\ uploaded_file_name' = NameAfterSidebar(f)
            /\ notice' = IF uploaded_video_file_obj = None
                         THEN "upload_failed" ELSE "ready_to_analyze"
            /\ lastRun' = "select"
            /\ genCall' = NoGen
            /\ pollCall' = NoPoll
            /\ UNCHANGED << messages, uploaded_video_file_obj, upload_key,
                            deleted, deletes >>

\* the user empties the uploader
RemoveFile ==
    /\ pc = "idle"
    /\ uploaded_file # NoFile
    /\ NoUpload
    /\ uploaded_file' = NoFile
    /\ notice' = IF uploaded_video_file_obj = None
                 THEN "none" ELSE "ready_to_analyze"
    /\ lastRun' = "remove"
    /\ genCall' = NoGen
    /\ pollCall' = NoPoll
    /\ UNCHANGED << messages, uploaded_video_file_obj, uploaded_file_name,
                    upload_key, deleted, deletes >>

\* ------------------------------------------------- the chat input handler

\* get_gemini_response without the test of response.candidates: response.text
\* raises on a reply that has none
get_gemini_response_unchecked(video_file_obj, gen, text) ==
    IF video_file_obj = None THEN UploadFirstMsg
    ELSE IF gen = "text" THEN text ELSE ErrorMsg

\* get_gemini_response, for what model.generate_content does (gen) and the
\* text of its reply
get_gemini_response(video_file_obj, gen, text) ==
    IF video_file_obj = None THEN UploadFirstMsg
    ELSE CASE gen = "raises" -> ErrorMsg
           [] gen = "no_candidates" -> NoCandidatesMsg
           [] gen = "blocked_text" -> ErrorMsg   \* response.text raises
           [] OTHER -> text

\* what model.generate_content can do for handle v: a deleted file is
\* refused by the service
GenerateFor(v) ==
    IF v.name \in deleted THEN {"raises"} ELSE GenerateOutcomes

\* the user enters a prompt
Chat ==
    /\ pc = "idle"
    /\ IF NeedsUpload(uploaded_file)
       THEN StartUpload(uploaded_file)   \* st.rerun() drops the prompt
       ELSE /\ NoUpload
            /\ uploaded_file_name' = NameAfterSidebar(uploaded_file)
            /\ lastRun' = "chat"
            /\ pollCall' = NoPoll
            /\ IF uploaded_video_file_obj = None
               THEN /\ notice' = "please_upload"
                    /\ genCall' = NoGen
                    /\ UNCHANGED messages
               ELSE /\ Len(messages) + 2 <= MaxMessages
                    /\ \E gen \in GenerateFor(uploaded_video_file_obj),
                          text \in Texts :
                         /\ genCall' =
                              [name |-> uploaded_video_file_obj.name,
                               state |-> uploaded_video_file_obj.state,
                               deleted |-> uploaded_video_file_obj.name \in deleted,
                               outcome |-> gen]
                         /\ messages' = messages \o
                              << [role |-> "user", content |-> "prompt"],
                                 [role |-> "assistant", content |->
                                    get_gemini_response(
                                        uploaded_video_file_obj, gen, text)] >>
                    /\ notice' = "answered"
            /\ UNCHANGED << uploaded_video_file_obj, upload_key,
                            uploaded_file, deleted, deletes >>

\* ------------------------------------- the Clear Chat & Remove Video handler

\* a cleanup whose errors are not caught
CleanupRaisesUncaught(r, delOk) == r = "raises" \/ (r = "ACTIVE" /\ ~delOk)

\* lines 230-239: whether an error of the remote cleanup leaves the handler;
\* except Exception (line 238) catches those of get_file and delete_file
CleanupRaises(r, delOk) == FALSE

\* lines 229-239: the remote cleanup, for the report r of get_file and
\* whether delete_file succeeds
Cleanup(v, r, delOk) ==
    /\ pollCall' = [name |-> v.name, report |-> r,
                    deleted |-> v.name \in deleted,
                    failed |-> v.name \in failedSeen, by |-> "clear"]
    /\ IF r = "ACTIVE"
       THEN /\ deletes' = deletes + 1
            /\ deleted' = IF delOk THEN deleted \cup {v.name} ELSE deleted
            /\ notice' = IF delOk THEN "removed"
                         ELSE IF CleanupRaises(r, delOk) THEN "exception"
                         ELSE "not_removed"
       ELSE /\ notice' = IF r # "raises" THEN "skipped"
                         ELSE IF CleanupRaises(r, delOk) THEN "exception"
                         ELSE "not_removed"
            /\ UNCHANGED << deleted, deletes >>

\* a Clear that keeps the handle
ForgetVideoKeepsHandle ==
    /\ UNCHANGED uploaded_video_file_obj
    /\ upload_key' = upload_key + 1
    /\ uploaded_file' = NoFile

\* lines 240-242
ForgetVideo ==
    /\ uploaded_video_file_obj' = None
    /\ upload_key' = upload_key + 1
    /\ uploaded_file' = NoFile

\* the user clicks Clear Chat & Remove Video
Clear ==
    /\ pc = "idle"
    /\ upload_key < MaxKey
    /\ IF NeedsUpload(uploaded_file)
       THEN StartUpload(uploaded_file)   \* st.rerun() drops the click
       ELSE /\ NoUpload
            /\ lastRun' = IF lastRun \in {"clear", "clear2"}
                          THEN "clear2" ELSE "clear"
            /\ genCall' = NoGen
            /\ messages' = << >>
            /\ uploaded_file_name' = "None"
            /\ IF uploaded_video_file_obj # None
               THEN \E r \in GetFileFor(uploaded_video_file_obj.name),
                       delOk \in BOOLEAN :
                        /\ Cleanup(uploaded_video_file_obj, r, delOk)
                        /\ IF CleanupRaises(r, delOk)
                           THEN UNCHANGED << uploaded_video_file_obj,
                                             upload_key, uploaded_file >>
                           ELSE ForgetVideo
               ELSE /\ notice' = "none"
                    /\ pollCall' = NoPoll
                    /\ UNCHANGED << deleted, deletes >>
                    /\ ForgetVideo

Next ==
    \/ \E f \in Files : SelectFile(f)
    \/ RemoveFile
    \/ Chat
    \/ Clear
    \/ WriteTmp
    \/ UploadFile
    \/ LoopTest
    \/ SleepAndPoll

Spec == Init /\ [][Next]_vars

InitStuck == Init /\ backend = "stuck"

\* a service that accepts every upload and reports PROCESSING forever; the
\* script runs on: a call returns and a sleep ends
StuckSpec ==
    /\ InitStuck
    /\ [][Next]_vars
    /\ WF_vars(WriteTmp) /\ WF_vars(UploadFile)
    /\ WF_vars(LoopTest) /\ WF_vars(SleepAndPoll)

\* ------------------------------------------------------------ properties

ClearRuns == {"clear", "clear2"}

\* C1: model.generate_content is called only with a handle whose last
\* observed state is ACTIVE, and a prompt entered while the session holds no
\* such handle is answered with the not-ready warning and no generate call.
C1_GenerateOnlyWhenReady ==
    /\ genCall # NoGen => genCall.state = "ACTIVE"
    /\ (lastRun = "chat" /\ uploaded_video_file_obj.state # "ACTIVE")
          => (genCall = NoGen /\ notice = "please_upload")

\* C2: upload_video_to_gemini returns a handle only when the state the
\* service reported last is ACTIVE.
C2_ReturnsOnlyActive ==
    (pc = "idle" /\ lastRun = "upload" /\ notice = "ready")
        => uploaded_video_file_obj.state = "ACTIVE"

\* C3 as stated: a Ready handle is never returned at a moment when the time
\* elapsed since start_time is greater than max_polling_time.
C3_NoReadyAfterMaxWait ==
    (pc = "idle" /\ notice = "ready"
        /\ uploaded_video_file_obj.state = "ACTIVE")
        => elapsed <= max_polling_time

\* C3 as amended: the timeout is tested before each sleep, while the last
\* report is PROCESSING.  A test that finds elapsed > max_polling_time ends
\* the call with the timeout; a sleep is started, and a handle returned, only
\* after tests that found elapsed <= max_polling_time.
C3_TimeoutTestedBeforeEachSleep ==
    /\ pc = "sleep" => (checkedAt = elapsed /\ elapsed <= max_polling_time)
    /\ (pc = "idle" /\ notice = "ready") => checkedAt <= max_polling_time
    /\ (pc = "idle" /\ notice = "timed_out")
          => (checkedAt > max_polling_time /\ uploaded_video_file_obj = None)

\* a handle returned after a poll, later than max_polling_time
C3_Witness ==
    /\ pc = "idle" /\ notice = "ready" /\ polls >= 1
    /\ uploaded_video_file_obj.state = "ACTIVE"
    /\ elapsed > max_polling_time

\* the polls awaitReady may issue: maxWait / pollInterval + 1
MaxPolls == (max_polling_time \div polling_interval) + 1

\* C4 as stated: against a service that reports PROCESSING forever, with
\* max_polling_time = 0 the call times out without a sleep and without a
\* status poll, and for every max_polling_time the polls stay within MaxPolls.
C4_ZeroMaxWaitNeverPolls ==
    /\ max_polling_time = 0 => (polls = 0 /\ pc # "sleep")
    /\ polls <= MaxPolls

\* C4 as amended: against a service that reports PROCESSING forever the
\* call ends with the timeout after at most MaxPolls status polls; with
\* max_polling_time = 0 that is at most one sleep and one poll.
C4_TimesOutWithinMaxPolls ==
    /\ [](polls <= MaxPolls)
    /\ [](max_polling_time = 0 => polls <= 1)
    /\ []((pc = "idle" /\ checkedAt >= 0)
            => (notice = "timed_out" /\ uploaded_video_file_obj = None))
    /\ (pc = "loop" ~> (pc = "idle" /\ notice = "timed_out"))

\* a timeout with max_polling_time = 0 that came after one poll
C4_Witness ==
    /\ backend = "stuck" /\ max_polling_time = 0
    /\ pc = "idle" /\ notice = "timed_out" /\ polls = 1

\* C5: once the service reports FAILED to an upload, the call ends with the
\* failure report, the file is not polled again, and its handle is never
\* stored in the session.
C5_FailedEndsUpload ==
    /\ uploaded_video_file_obj.name \notin failedSeen
    /\ ~pollCall.failed
    /\ pc = "sleep" => video_file.state # "FAILED"
    /\ (pc = "idle" /\ lastRun = "upload" /\ video_file.state = "FAILED")
          => (notice = "failed" /\ uploaded_video_file_obj = None)

\* an upload that ended because a status poll reported FAILED
C5_Witness ==
    /\ pc = "idle" /\ notice = "failed" /\ polls >= 1
    /\ pollCall.report = "FAILED"

\* C6: no temporary file is left when upload_video_to_gemini has returned.
C6_TempFileReleased == pc = "idle" => tmp_files = 0

\* C7: no status poll and no generate call refers to a file that
\* genai.delete_file has removed.
C7_DeletedNeverUsed == ~pollCall.deleted /\ ~genCall.deleted

\* C8: a Clear that follows a Clear changes neither the handle, the chat,
\* the file name, the cache nor the remote files, sends no request to the
\* service and reports nothing.
C8_ClearTwice ==
    [][ (lastRun \in ClearRuns /\ lastRun' = "clear2") =>
            /\ uploaded_video_file_obj' = uploaded_video_file_obj
            /\ uploaded_video_file_obj' = None
            /\ messages' = messages /\ messages' = << >>
            /\ uploaded_file_name' = uploaded_file_name
            /\ uploaded_file' = uploaded_file
            /\ cache' = cache
            /\ deleted' = deleted /\ deletes' = deletes
            /\ pollCall' = NoPoll
            /\ notice' = "none" ]_vars

\* a second Clear in a row, after a file was deleted
C8_Witness == lastRun = "clear2" /\ deleted # {}

\* C9: after Clear the session holds no handle, whatever get_file and
\* delete_file did, and a failure is only reported as a warning.
C9_ClearAlwaysForgets ==
    lastRun \in ClearRuns =>
        /\ uploaded_video_file_obj = None
        /\ uploaded_file_name = "None"
        /\ messages = << >>
        /\ notice \in {"none", "removed", "skipped", "not_removed"}

\* a Clear whose delete request was rejected
C9_Witness ==
    /\ lastRun = "clear" /\ notice = "not_removed"
    /\ pollCall.report = "ACTIVE" /\ pollCall.name \notin deleted

\* the assistant's reply of the last chat exchange
LastReply == messages[Len(messages)].content

C11_TwoPollsThenReady ==
    (/\ polling_interval = 1 /\ max_polling_time = 10
     /\ lastRun = "upload" /\ pollCall.by = "upload"
     /\ processing = 2 /\ pollCall.report = "ACTIVE")
        => /\ polls = 2
           /\ checkedAt >= 0
           /\ video_file.state = "ACTIVE"
           /\ pc \in {"loop", "idle"}
           /\ pc = "idle" => (notice = "ready"
                              /\ uploaded_video_file_obj = video_file)

\* a handle returned after PROCESSING, PROCESSING, ACTIVE
C11_Witness ==
    /\ polling_interval = 1 /\ max_polling_time = 10
    /\ pc = "idle" /\ notice = "ready" /\ processing = 2 /\ polls = 2
    /\ uploaded_video_file_obj.state = "ACTIVE"

====
